---- MODULE Spec2Model ----
(***************************************************************************)
(* handlebars-cli: one process reads two command-line arguments (a JSON    *)
(* properties text and a template path), parses the JSON, checks that the  *)
(* path exists, registers the template file with a strict-mode Handlebars  *)
(* registry, renders it and prints the result (src/src/main.rs).           *)
(*                                                                         *)
(* Texts (arguments, file contents, output) are sequences of pieces of     *)
(* text; the text a sequence stands for is the concatenation of its        *)
(* pieces.                                                                 *)
(***************************************************************************)
EXTENDS Integers, Sequences, FiniteSets, TLC

\* Bounds of the model.
MaxPropsLen == 4
MaxTemplateLen == 4

\* ------------------------------------------------------------------ inputs

\* Pieces of a properties text: braces, the member key "name" with its
\* colon, and two string literals.
JsonTokens == {"{", "}", "\"name\":", "\"World\"", "\"R&D\""}
KeyTokens == {"\"name\":"}
StrTokens == {"\"World\"", "\"R&D\""}
\* Pieces of a template: literal text, the expression delimiters, an
\* identifier.
TemplateTokens == {"Hello, ", "{{", "}}", "name"}
Paths == {<<"hello.hbs">>, <<"tpl/page.hbs">>}
HelpArg == <<"--help">>

SeqsUpTo(S, n) == UNION {[1..k -> S] : k \in 0..n}
PropsTexts == SeqsUpTo(JsonTokens, MaxPropsLen)
Templates == SeqsUpTo(TemplateTokens, MaxTemplateLen)

\* What the shell can pass after the program name: nothing, one argument,
\* or two.
FirstArgs == PropsTexts \cup {HelpArg}
CommandLines ==
    {<<>>}
    \cup {<<a>> : a \in Paths \cup {HelpArg, <<"{", "}">>}}
    \cup {<<a, f>> : a \in FirstArgs, f \in Paths}

\* ------------------------------------------------- serde_json::from_str

JStr(s) == [t |-> "str", s |-> s, m |-> <<>>]
JObj(members) == [t |-> "obj", s |-> "", m |-> members]
NoJson == [t |-> "none", s |-> "", m |-> <<>>]

\* The string a JSON string literal denotes (its quotes removed), and the
\* member name a key piece denotes.
Unquote(tok) == IF tok = "\"World\"" THEN "World" ELSE "R&D"
KeyOf(tok) == "name"

JsonFail == [ok |-> FALSE, value |-> NoJson, next |-> 0]

\* Recursive descent over value := string | {} | { key value }; a key
\* anywhere else, two values in a row or an unclosed brace do not parse.
RECURSIVE ParseValue(_, _)
ParseValue(toks, i) ==
    IF i > Len(toks) THEN JsonFail
    ELSE IF toks[i] \in StrTokens
    THEN [ok |-> TRUE, value |-> JStr(Unquote(toks[i])), next |-> i + 1]
    ELSE IF toks[i] = "{"
    THEN IF i + 1 <= Len(toks) /\ toks[i + 1] = "}"
         THEN [ok |-> TRUE, value |-> JObj(<<>>), next |-> i + 2]
         ELSE IF i + 1 <= Len(toks) /\ toks[i + 1] \in KeyTokens
         THEN LET r == ParseValue(toks, i + 2)
              IN  IF r.ok /\ r.next <= Len(toks) /\ toks[r.next] = "}"
                  THEN [ok |-> TRUE,
                        value |-> JObj(<<[k |-> KeyOf(toks[i + 1]), v |-> r.value]>>),
                        next |-> r.next + 1]
                  ELSE JsonFail
         ELSE JsonFail
    ELSE JsonFail

\* Json::from_str: one value, then end of input.
JsonFromStr(text) ==
    LET r == ParseValue(text, 1)
    IN  IF r.ok /\ r.next = Len(text) + 1
        THEN [ok |-> TRUE, value |-> r.value, source |-> ""]
        ELSE [ok |-> FALSE, value |-> NoJson, source |-> "serde_json::Error"]

\* ------------------------------------------------------ handlebars engine

TText(tok) == [e |-> "text", tok |-> tok, id |-> <<>>]
TExpr(id) == [e |-> "expr", tok |-> "", id |-> id]

\* Number of consecutive identifier tokens from position i.
RECURSIVE NameRun(_, _)
NameRun(c, i) ==
    IF i <= Len(c) /\ c[i] = "name" THEN 1 + NameRun(c, i + 1) ELSE 0

\* Template::compile: text outside "{{ }}" is literal (a stray "}}" too);
\* "{{" must be followed by an identifier and "}}".
RECURSIVE CompileFrom(_, _)
CompileFrom(c, i) ==
    IF i > Len(c) THEN [ok |-> TRUE, elems |-> <<>>]
    ELSE IF c[i] = "{{"
    THEN LET n == NameRun(c, i + 1)
             close == i + 1 + n
         IN  IF n >= 1 /\ close <= Len(c) /\ c[close] = "}}"
             THEN LET rest == CompileFrom(c, close + 1)
                  IN  IF rest.ok
                      THEN [ok |-> TRUE,
                            elems |-> <<TExpr(SubSeq(c, i + 1, close - 1))>> \o rest.elems]
                      ELSE rest
             ELSE [ok |-> FALSE, elems |-> <<>>]
    ELSE LET rest == CompileFrom(c, i + 1)
         IN  IF rest.ok
             THEN [ok |-> TRUE, elems |-> <<TText(c[i])>> \o rest.elems]
             ELSE rest

Compile(content) == CompileFrom(content, 1)

NoEngine == [created |-> FALSE, strict |-> FALSE, templates |-> {}]

\* Handlebars::new(): an empty registry, strict mode off.
HandlebarsNew == [created |-> TRUE, strict |-> FALSE, templates |-> {}]

\* Variant: the flag is never set.
SetStrictModeNoop(reg, enabled) == reg

\* Registry::set_strict_mode.
SetStrictMode(reg, enabled) == [reg EXCEPT !.strict = enabled]

\* The template registered under `name`, as a set (empty when there is none).
TemplatesNamed(reg, name) == {t \in reg.templates : t.name = name}

IoFailure == [ok |-> FALSE, content |-> <<>>]

\* File::open + read_to_string on the entry at the path: only a regular
\* file yields its content; a missing path or a directory is an I/O error.
ReadToString(entry, content) ==
    IF entry = "file" THEN [ok |-> TRUE, content |-> content] ELSE IoFailure

\* Registry::register_template_file, given what reading the file yielded:
\* an I/O error and a syntax error are both a TemplateError.
RegisterTemplateFile(reg, name, rd) ==
    IF ~rd.ok
    THEN [ok |-> FALSE, reg |-> reg, source |-> "TemplateError::IoError"]
    ELSE LET c == Compile(rd.content)
         IN  IF c.ok
             THEN [ok |-> TRUE,
                   reg |-> [reg EXCEPT !.templates =
                              {t \in @ : t.name # name}
                              \cup {[name |-> name, elems |-> c.elems]}],
                   source |-> ""]
             ELSE [ok |-> FALSE, reg |-> reg, source |-> "TemplateError::InvalidSyntax"]

\* Default escape function (html_escape) on the strings of the model.
HtmlEscape(s) == IF s = "R&D" THEN "R&amp;D" ELSE s

\* Context lookup of a one-segment path: only a member of a top-level
\* object is found.
HasProperty(data, id) ==
    /\ data.t = "obj"
    /\ Len(data.m) = 1
    /\ Len(id) = 1
    /\ data.m[1].k = id[1]

\* JsonRender: a string renders as itself (escaped), an object as "[object]".
RenderValue(v) == IF v.t = "str" THEN <<HtmlEscape(v.s)>> ELSE <<"[object]">>

RenderFail == [ok |-> FALSE, out |-> <<>>]

\* Rendering of the compiled elements, left to right; in strict mode a
\* missing property is an error, otherwise it renders as nothing.
RECURSIVE RenderElems(_, _, _)
RenderElems(elems, data, strict) ==
    IF elems = <<>> THEN [ok |-> TRUE, out |-> <<>>]
    ELSE LET el == Head(elems)
             here == IF el.e = "text" THEN [ok |-> TRUE, out |-> <<el.tok>>]
                     ELSE IF HasProperty(data, el.id)
                     THEN [ok |-> TRUE, out |-> RenderValue(data.m[1].v)]
                     ELSE IF strict THEN RenderFail
                     ELSE [ok |-> TRUE, out |-> <<>>]
         IN  IF ~here.ok THEN RenderFail
             ELSE LET rest == RenderElems(Tail(elems), data, strict)
                  IN  IF rest.ok
                      THEN [ok |-> TRUE, out |-> here.out \o rest.out]
                      ELSE RenderFail

\* Registry::render(name, data).
Render(reg, name, data) ==
    IF TemplatesNamed(reg, name) = {}
    THEN [ok |-> FALSE, out |-> <<>>, source |-> "RenderError::TemplateNotFound"]
    ELSE LET t == CHOOSE x \in TemplatesNamed(reg, name) : TRUE
             r == RenderElems(t.elems, data, reg.strict)
         IN  IF r.ok
             THEN [ok |-> TRUE, out |-> r.out, source |-> ""]
             ELSE [ok |-> FALSE, out |-> <<>>, source |-> "RenderError::MissingVariable"]

\* ------------------------------------------------------------- enum Error

NoError == [kind |-> "none", path |-> <<>>, source |-> ""]
PropsInvalidJson(source) ==
    [kind |-> "PropsInvalidJson", path |-> <<>>, source |-> source]
\* Variant: the error carries the path as a relative path made explicit.
TemplateNotFoundDotted(path) ==
    [kind |-> "TemplateNotFound", path |-> <<"./">> \o path, source |-> ""]
TemplateNotFound(path) ==
    [kind |-> "TemplateNotFound", path |-> path, source |-> ""]
TemplateInvalid(source, path) ==
    [kind |-> "TemplateInvalid", path |-> path, source |-> source]
TemplateRenderFailed(source, path) ==
    [kind |-> "TemplateRenderFailed", path |-> path, source |-> source]

\* The snafu display strings.
Display(err) ==
    CASE err.kind = "PropsInvalidJson" ->
           <<"Unable to parse properties JSON: ", err.source>>
      [] err.kind = "TemplateNotFound" ->
           <<"Unable to read template from '">> \o err.path \o <<"'.">>
      [] err.kind = "TemplateInvalid" ->
           <<"File at '">> \o err.path
             \o <<"' was not a valid handlebars template: ", err.source>>
      [] err.kind = "TemplateRenderFailed" ->
           <<"Template at '">> \o err.path \o <<"' failed to render: ", err.source>>
      [] OTHER -> <<>>

NoResult == [tag |-> "none", data |-> <<>>, err |-> NoError]
Ok(data) == [tag |-> "ok", data |-> data, err |-> NoError]
Err(e) == [tag |-> "err", data |-> <<>>, err |-> e]

USAGE == <<"handlebars-cli usage text">>

\* println!/eprintln!: the text and a newline, appended to the stream.
Println(stream, text) == stream \o text \o <<"\n">>
\* ------------------------------------------------------------------ state

VARIABLES
    args,          \* env::args() after the program's own name
    pc,            \* where the process is
    raw_props,     \* main's raw_props
    raw_filename,  \* main's raw_filename
    props,         \* the parsed properties
    filename,      \* PathBuf::from(&raw_filename)
    file_exists,   \* what filename.exists() answered
    read,          \* what reading the template file yielded
    handlebars,    \* the registry
    result,        \* what execute_handlebars_templating returned
    stdout,
    stderr,
    exit_code,
    steps,         \* the pipeline steps this process has executed, in order
    fs,            \* the file system entry at the template path
    touched,       \* <<entry changed during the previous run, changed since>>
    prev           \* outcome of the previous invocation of this command line

proc_vars == <<pc, raw_props, raw_filename, props, filename, file_exists, read,
               handlebars, result, stdout, stderr, exit_code, steps>>
env_vars == <<fs, touched>>
vars == <<args, proc_vars, env_vars, prev>>

NoRead == [ok |-> FALSE, content |-> <<>>]
NoOutcome ==
    [ran |-> FALSE, stdout |-> <<>>, stderr |-> <<>>, exit_code |-> 0,
     result |-> NoResult]

\* A process as the operating system starts it.
Fresh ==
    /\ pc = "main"
    /\ raw_props = <<>>
    /\ raw_filename = <<>>
    /\ props = NoJson
    /\ filename = <<>>
    /\ file_exists = FALSE
    /\ read = NoRead
    /\ handlebars = NoEngine
    /\ result = NoResult
    /\ stdout = <<>>
    /\ stderr = <<>>
    /\ exit_code = 0
    /\ steps = <<>>

\* The entry at the template path is missing, a directory or a regular file.
\* A file's content is fixed the first time it is read (known).
FsEntry(kind) == [kind |-> kind, known |-> FALSE, content |-> <<>>]

Init ==
    /\ args \in CommandLines
    /\ Fresh
    /\ fs \in {FsEntry(k) : k \in {"missing", "dir", "file"}}
    /\ touched = <<FALSE, FALSE>>
    /\ prev = NoOutcome

\* ---------------------------------------------------------------- main()

\* Variant: printing the usage text is a success.
MainArgsUsageOk ==
    /\ pc = "main"
    /\ IF Len(args) >= 2
       THEN /\ raw_props' = args[1]
            /\ raw_filename' = args[2]
            /\ pc' = "parse_json"
            /\ UNCHANGED <<stderr, exit_code>>
       ELSE /\ stderr' = Println(stderr, USAGE)
            /\ exit_code' = 0
            /\ pc' = "exited"
            /\ UNCHANGED <<raw_props, raw_filename>>
    /\ UNCHANGED <<args, props, filename, file_exists, read, handlebars, result,
                   stdout, steps, env_vars, prev>>

\* main, lines 54-63: the two positional arguments, or the usage text on
\* standard error and exit code 1.
MainArgs ==
    /\ pc = "main"
    /\ IF Len(args) >= 2
       THEN /\ raw_props' = args[1]
            /\ raw_filename' = args[2]
            /\ pc' = "parse_json"
            /\ UNCHANGED <<stderr, exit_code>>
       ELSE /\ stderr' = Println(stderr, USAGE)
            /\ exit_code' = 1
            /\ pc' = "exited"
            /\ UNCHANGED <<raw_props, raw_filename>>
    /\ UNCHANGED <<args, props, filename, file_exists, read, handlebars, result,
                   stdout, steps, env_vars, prev>>

\* Variant: a properties text that does not parse is replaced by no
\* properties and the pipeline goes on.
ParseJsonLenient ==
    /\ pc = "parse_json"
    /\ steps' = Append(steps, "parse_json")
    /\ props' = JsonFromStr(raw_props).value
    /\ pc' = "exists"
    /\ UNCHANGED <<args, raw_props, raw_filename, filename, file_exists, read,
                   handlebars, result, stdout, stderr, exit_code, env_vars, prev>>

\* execute_handlebars_templating, line 86.
ParseJson ==
    /\ pc = "parse_json"
    /\ steps' = Append(steps, "parse_json")
    /\ LET r == JsonFromStr(raw_props)
       IN  IF r.ok
           THEN /\ props' = r.value
                /\ pc' = "exists"
                /\ UNCHANGED result
           ELSE /\ result' = Err(PropsInvalidJson(r.source))
                /\ pc' = "match"
                /\ UNCHANGED props
    /\ UNCHANGED <<args, raw_props, raw_filename, filename, file_exists, read,
                   handlebars, stdout, stderr, exit_code, env_vars, prev>>

\* Path::exists: true for anything at the path, a directory included.
PathExists(entry) == entry.kind # "missing"

\* Variant: the error is built and the function does not return.
CheckExistsNoReturn ==
    /\ pc = "exists"
    /\ steps' = Append(steps, "exists")
    /\ filename' = raw_filename
    /\ file_exists' = PathExists(fs)
    /\ result' = IF PathExists(fs) THEN result ELSE Err(TemplateNotFound(raw_filename))
    /\ pc' = "register"
    /\ UNCHANGED <<args, raw_props, raw_filename, props, read, handlebars,
                   stdout, stderr, exit_code, env_vars, prev>>

\* execute_handlebars_templating, lines 88-91.
CheckExists ==
    /\ pc = "exists"
    /\ steps' = Append(steps, "exists")
    /\ filename' = raw_filename
    /\ file_exists' = PathExists(fs)
    /\ IF ~PathExists(fs)
       THEN /\ result' = Err(TemplateNotFound(raw_filename))
            /\ pc' = "match"
       ELSE /\ pc' = "register"
            /\ UNCHANGED result
    /\ UNCHANGED <<args, raw_props, raw_filename, props, read, handlebars,
                   stdout, stderr, exit_code, env_vars, prev>>

\* Variant: the registration's error is dropped and the pipeline goes on.
RegisterTemplateIgnoringError ==
    /\ pc = "register"
    /\ steps' = Append(steps, "register")
    /\ \E c \in (IF fs.known THEN {fs.content} ELSE Templates) :
         LET rd == ReadToString(fs.kind, c)
             r == RegisterTemplateFile(SetStrictMode(HandlebarsNew, TRUE),
                                       raw_filename, rd)
         IN  /\ read' = rd
             /\ fs' = IF fs.kind = "file"
                      THEN [fs EXCEPT !.known = TRUE, !.content = c]
                      ELSE fs
             /\ (fs.kind # "file" => c = <<>>)
             /\ handlebars' = r.reg
             /\ pc' = "render"
             /\ UNCHANGED result
    /\ UNCHANGED <<args, raw_props, raw_filename, props, filename, file_exists,
                   stdout, stderr, exit_code, touched, prev>>

\* Variant: a file that cannot be read is reported as not found.
RegisterTemplateNotFoundOnIo ==
    /\ pc = "register"
    /\ steps' = Append(steps, "register")
    /\ \E c \in (IF fs.known THEN {fs.content} ELSE Templates) :
         LET rd == ReadToString(fs.kind, c)
             r == RegisterTemplateFile(SetStrictMode(HandlebarsNew, TRUE),
                                       raw_filename, rd)
         IN  /\ read' = rd
             /\ fs' = IF fs.kind = "file"
                      THEN [fs EXCEPT !.known = TRUE, !.content = c]
                      ELSE fs
             /\ (fs.kind # "file" => c = <<>>)
             /\ handlebars' = r.reg
             /\ IF r.ok
                THEN /\ pc' = "render"
                     /\ UNCHANGED result
                ELSE /\ result' = IF rd.ok
                                  THEN Err(TemplateInvalid(r.source, filename))
                                  ELSE Err(TemplateNotFound(raw_filename))
                     /\ pc' = "match"
    /\ UNCHANGED <<args, raw_props, raw_filename, props, filename, file_exists,
                   stdout, stderr, exit_code, touched, prev>>

\* Variant: the template file is opened for writing, which empties it.
RegisterTemplateTruncating ==
    /\ pc = "register"
    /\ steps' = Append(steps, "register")
    /\ \E c \in (IF fs.known THEN {fs.content} ELSE Templates) :
         LET rd == ReadToString(fs.kind, c)
             r == RegisterTemplateFile(SetStrictMode(HandlebarsNew, TRUE),
                                       raw_filename, rd)
         IN  /\ read' = rd
             /\ fs' = IF fs.kind = "file"
                      THEN [fs EXCEPT !.known = TRUE, !.content = <<>>]
                      ELSE fs
             /\ (fs.kind # "file" => c = <<>>)
             /\ handlebars' = r.reg
             /\ IF r.ok
                THEN /\ pc' = "render"
                     /\ UNCHANGED result
                ELSE /\ result' = Err(TemplateInvalid(r.source, filename))
                     /\ pc' = "match"
    /\ UNCHANGED <<args, raw_props, raw_filename, props, filename, file_exists,
                   stdout, stderr, exit_code, touched, prev>>

\* execute_handlebars_templating, lines 93-98: a new registry in strict
\* mode, then the template file is read and compiled under the name
\* raw_filename.
RegisterTemplate ==
    /\ pc = "register"
    /\ steps' = Append(steps, "register")
    /\ \E c \in (IF fs.known THEN {fs.content} ELSE Templates) :
         LET rd == ReadToString(fs.kind, c)
             r == RegisterTemplateFile(SetStrictMode(HandlebarsNew, TRUE),
                                       raw_filename, rd)
         IN  /\ read' = rd
             /\ fs' = IF fs.kind = "file"
                      THEN [fs EXCEPT !.known = TRUE, !.content = c]
                      ELSE fs
             /\ (fs.kind # "file" => c = <<>>)
             /\ handlebars' = r.reg
             /\ IF r.ok
                THEN /\ pc' = "render"
                     /\ UNCHANGED result
                ELSE /\ result' = Err(TemplateInvalid(r.source, filename))
                     /\ pc' = "match"
    /\ UNCHANGED <<args, raw_props, raw_filename, props, filename, file_exists,
                   stdout, stderr, exit_code, touched, prev>>

\* Variant: the rendered text is returned with a line end added.
RenderResultNewline(r, path) ==
    IF r.ok THEN Ok(r.out \o <<"\n">>) ELSE Err(TemplateRenderFailed(r.source, path))

\* What execute_handlebars_templating returns for the engine's render result.
RenderResult(r, path) ==
    IF r.ok THEN Ok(r.out) ELSE Err(TemplateRenderFailed(r.source, path))

\* execute_handlebars_templating, lines 100-102.
RenderTemplate ==
    /\ pc = "render"
    /\ steps' = Append(steps, "render")
    /\ result' = RenderResult(Render(handlebars, raw_filename, props), filename)
    /\ pc' = "match"
    /\ UNCHANGED <<args, raw_props, raw_filename, props, filename, file_exists,
                   read, handlebars, stdout, stderr, exit_code, env_vars, prev>>

\* Variant: the error is printed and main returns normally.
MainMatchNoExit ==
    /\ pc = "match"
    /\ IF result.tag = "ok"
       THEN /\ stdout' = Println(stdout, result.data)
            /\ UNCHANGED stderr
       ELSE /\ stderr' = Println(stderr, Display(result.err))
            /\ UNCHANGED stdout
    /\ exit_code' = 0
    /\ pc' = "exited"
    /\ UNCHANGED <<args, raw_props, raw_filename, props, filename, file_exists,
                   read, handlebars, result, steps, env_vars, prev>>

\* main, lines 65-73: print the data and return, or print the error and
\* exit with code 1.
MainMatch ==
    /\ pc = "match"
    /\ IF result.tag = "ok"
       THEN /\ stdout' = Println(stdout, result.data)
            /\ exit_code' = 0
            /\ UNCHANGED stderr
       ELSE /\ stderr' = Println(stderr, Display(result.err))
            /\ exit_code' = 1
            /\ UNCHANGED stdout
    /\ pc' = "exited"
    /\ UNCHANGED <<args, raw_props, raw_filename, props, filename, file_exists,
                   read, handlebars, result, steps, env_vars, prev>>

\* ---------------------------------------------------------- environment

\* Another process removes the template file.
FsRemove ==
    /\ fs.kind = "file"
    /\ fs' = FsEntry("missing")
    /\ touched' = <<touched[1], TRUE>>
    /\ UNCHANGED <<args, proc_vars, prev>>

\* The same command line is run again: a new process.
Reinvoke ==
    /\ pc = "exited"
    /\ prev' = [ran |-> TRUE, stdout |-> stdout, stderr |-> stderr, exit_code |-> exit_code,
                result |-> result]
    /\ touched' = <<touched[2], FALSE>>
    /\ pc' = "main"
    /\ raw_props' = <<>>
    /\ raw_filename' = <<>>
    /\ props' = NoJson
    /\ filename' = <<>>
    /\ file_exists' = FALSE
    /\ read' = NoRead
    /\ handlebars' = NoEngine
    /\ result' = NoResult
    /\ stdout' = <<>>
    /\ stderr' = <<>>
    /\ exit_code' = 0
    /\ steps' = <<>>
    /\ UNCHANGED <<args, fs>>

Step ==
    \/ MainArgs
    \/ ParseJson
    \/ CheckExists
    \/ RegisterTemplate
    \/ RenderTemplate
    \/ MainMatch

\* One invocation, with the file system changing under it.
OneRun ==
    \/ Step
    \/ FsRemove

Next ==
    \/ OneRun
    \/ Reinvoke

Spec == Init /\ [][Next]_vars

\* One invocation; the operating system schedules the process until it
\* exits.
FairSpec == Init /\ [][OneRun]_vars /\ WF_vars(Step)
\* ---------------------------------------------------------------- claims

Range(f) == {f[i] : i \in DOMAIN f}
Pipeline == <<"parse_json", "exists", "register", "render">>
IsPrefix(a, b) == Len(a) <= Len(b) /\ SubSeq(b, 1, Len(a)) = a

Returned == pc \in {"match", "exited"}
TwoArgs == Len(args) >= 2
WellFormedProps == TwoArgs /\ JsonFromStr(args[1]).ok
Parsed == JsonFromStr(args[1]).value
\* The template file was read and its content compiles.
CompiledRead == read.ok /\ Compile(read.content).ok
ReadElems == Compile(read.content).elems
AllRefsPresent(elems, data) ==
    \A i \in DOMAIN elems : elems[i].e = "expr" => HasProperty(data, elems[i].id)

\* C1: well-formed JSON, a path that exists, content that compiles and
\* references only properties the JSON has: the function returns Ok with
\* exactly the text the engine rendered, and that text holds no "{{".
C1_RenderSucceeds ==
    (/\ Returned
     /\ WellFormedProps
     /\ file_exists
     /\ CompiledRead
     /\ AllRefsPresent(ReadElems, Parsed))
    => /\ result.tag = "ok"
       /\ result.err = NoError
       /\ result.data = RenderElems(ReadElems, Parsed, TRUE).out
       /\ "{{" \notin Range(result.data)

C1_Witness ==
    /\ pc = "exited"
    /\ TwoArgs
    /\ args[1] = <<"{", "\"name\":", "\"R&D\"", "}">>
    /\ read.ok
    /\ read.content = <<"Hello, ", "{{", "name", "}}">>
    /\ result.tag = "ok"
    /\ result.data = <<"Hello, ", "R&amp;D">>

\* C2: with two arguments and a properties text that is not well-formed
\* JSON the run fails with PropsInvalidJson whatever is at the template
\* path; the path is never checked and the engine never used.
C2_InvalidJsonFirst ==
    (TwoArgs /\ ~JsonFromStr(args[1]).ok)
    => /\ pc \in {"main", "parse_json", "match", "exited"}
       /\ Range(steps) \subseteq {"parse_json"}
       /\ handlebars = NoEngine
       /\ read = NoRead
       /\ Returned =>
            result = [tag |-> "err", data |-> <<>>,
                      err |-> [kind |-> "PropsInvalidJson", path |-> <<>>,
                               source |-> "serde_json::Error"]]
       /\ pc = "exited" =>
            /\ exit_code = 1
            /\ stdout = <<>>
            /\ stderr = <<"Unable to parse properties JSON: ", "serde_json::Error", "\n">>

C2_Witness ==
    /\ pc = "exited"
    /\ TwoArgs
    /\ args[1] = <<"{", "\"name\":", "}">>
    /\ fs.kind = "missing"
    /\ result.err.kind = "PropsInvalidJson"

\* C3: well-formed JSON and a path that does not exist when checked: the
\* run fails with TemplateNotFound carrying the path as given, and the
\* engine is never created, asked to compile or asked to render.
C3_TemplateNotFound ==
    (/\ Returned
     /\ WellFormedProps
     /\ "exists" \in Range(steps)
     /\ ~file_exists)
    => /\ result = [tag |-> "err", data |-> <<>>,
                    err |-> [kind |-> "TemplateNotFound", path |-> args[2],
                             source |-> ""]]
       /\ steps = <<"parse_json", "exists">>
       /\ handlebars = NoEngine
       /\ read = NoRead
       /\ pc = "exited" =>
            /\ exit_code = 1
            /\ stdout = <<>>
            /\ stderr = <<"Unable to read template from '">> \o args[2] \o <<"'.", "\n">>

C3_Witness ==
    /\ pc = "exited"
    /\ args = <<<<"{", "}">>, <<"tpl/page.hbs">>>>
    /\ fs.kind = "missing"
    /\ ~file_exists
    /\ result.err.kind = "TemplateNotFound"
    /\ result.err.path = <<"tpl/page.hbs">>

\* C4: the registry is in strict mode whenever a template is registered or
\* rendered, and a valid template that references a property the JSON lacks
\* fails with TemplateRenderFailed; nothing is printed on standard output.
C4_StrictMode ==
    /\ handlebars.created => handlebars.strict
    /\ (/\ Returned
        /\ WellFormedProps
        /\ file_exists
        /\ CompiledRead
        /\ ~AllRefsPresent(ReadElems, Parsed))
       => /\ result.tag = "err"
          /\ result.err.kind = "TemplateRenderFailed"
          /\ result.err.path = args[2]
          /\ pc = "exited" => (exit_code = 1 /\ stdout = <<>>)

C4_Witness ==
    /\ pc = "exited"
    /\ TwoArgs
    /\ args[1] = <<"{", "}">>
    /\ read.ok
    /\ read.content = <<"Hello, ", "{{", "name", "}}">>
    /\ handlebars.strict
    /\ result.err.kind = "TemplateRenderFailed"

\* C5: well-formed JSON and an existing file whose content is not valid
\* template syntax: the run fails with TemplateInvalid carrying the path and
\* the engine's diagnostic, and rendering is never attempted.
C5_TemplateInvalid ==
    (/\ Returned
     /\ WellFormedProps
     /\ file_exists
     /\ read.ok
     /\ ~Compile(read.content).ok)
    => /\ result = [tag |-> "err", data |-> <<>>,
                    err |-> [kind |-> "TemplateInvalid", path |-> args[2],
                             source |-> "TemplateError::InvalidSyntax"]]
       /\ "render" \notin Range(steps)
       /\ pc = "exited" =>
            /\ exit_code = 1
            /\ stdout = <<>>
            /\ stderr = <<"File at '">> \o args[2]
                          \o <<"' was not a valid handlebars template: ",
                               "TemplateError::InvalidSyntax", "\n">>

C5_Witness ==
    /\ pc = "exited"
    /\ WellFormedProps
    /\ read.ok
    /\ read.content = <<"Hello, ", "{{", "name">>
    /\ result.err.kind = "TemplateInvalid"

\* C6: nothing is written before the process ends, and it ends either with
\* the rendered text and a newline on standard output, nothing on standard
\* error and exit code 0, or with nothing on standard output, one message on
\* standard error and exit code 1.
C6_OutcomeDichotomy ==
    /\ pc # "exited" => (stdout = <<>> /\ stderr = <<>>)
    /\ pc = "exited" =>
         \/ /\ result.tag = "ok"
            /\ stdout = result.data \o <<"\n">>
            /\ stderr = <<>>
            /\ exit_code = 0
         \/ /\ result.tag # "ok"
            /\ stdout = <<>>
            /\ stderr \in {USAGE \o <<"\n">>, Display(result.err) \o <<"\n">>}
            /\ Len(stderr) >= 2
            /\ exit_code = 1

\* Both outcomes in one state: this invocation failed after the previous
\* one of the same command line had succeeded.
C6_Witness ==
    /\ pc = "exited"
    /\ exit_code = 1
    /\ stdout = <<>>
    /\ stderr # <<>>
    /\ prev.ran
    /\ prev.exit_code = 0
    /\ prev.stdout = <<"Hello, ", "R&amp;D", "\n">>

\* C7: with fewer than two arguments (--help alone is one argument) the
\* process prints the usage text on standard error and exits with code 1;
\* no JSON is parsed, no file checked or read, no engine created.
C7_Usage ==
    (Len(args) < 2 /\ pc # "main")
    => /\ pc = "exited"
       /\ stderr = USAGE \o <<"\n">>
       /\ stdout = <<>>
       /\ exit_code = 1
       /\ steps = <<>>
       /\ props = NoJson
       /\ ~file_exists
       /\ read = NoRead
       /\ handlebars = NoEngine
       /\ result = NoResult

C7_Witness ==
    /\ pc = "exited"
    /\ args = <<HelpArg>>
    /\ stderr = USAGE \o <<"\n">>
    /\ exit_code = 1

\* C8: a second invocation of the same command line, with the template
\* entry unchanged since the first began, ends exactly as the first did:
\* same standard output, same standard error, same exit code, same result.
C8_Idempotent ==
    (pc = "exited" /\ prev.ran /\ touched = <<FALSE, FALSE>>)
    => /\ stdout = prev.stdout
       /\ stderr = prev.stderr
       /\ exit_code = prev.exit_code
       /\ result = prev.result

C8_Witness ==
    /\ pc = "exited"
    /\ prev.ran
    /\ touched = <<FALSE, FALSE>>
    /\ result.tag = "ok"
    /\ stdout = <<"R&amp;D", "}}", "\n">>
    /\ prev.stdout = stdout

\* The error kind each pipeline step fails with.
KindOf(step) ==
    CASE step = "parse_json" -> "PropsInvalidJson"
      [] step = "exists" -> "TemplateNotFound"
      [] step = "register" -> "TemplateInvalid"
      [] step = "render" -> "TemplateRenderFailed"

StepsInOrder ==
    /\ IsPrefix(steps, Pipeline)
    /\ result.tag = "err" =>
         /\ Returned
         /\ steps # <<>>
         /\ result.err.kind = KindOf(steps[Len(steps)])
    /\ result.tag = "ok" => (Returned /\ steps = Pipeline)
    /\ (pc = "exited" /\ TwoArgs) => result.tag \in {"ok", "err"}

\* Within one process, once the function has returned nothing of the
\* pipeline runs again: no step, no file access, no engine call.
NoStepAfterReturn ==
    (result.tag # "none" /\ pc' # "main")
    => /\ steps' = steps
       /\ result' = result
       /\ read' = read
       /\ handlebars' = handlebars
       /\ file_exists' = file_exists

\* C9: the steps run in the order parse-JSON, check-exists, compile, render,
\* each at most once; a failing step ends the run with its own error kind
\* and nothing runs after it; every started process reaches its exit.
C9_Pipeline ==
    /\ []StepsInOrder
    /\ [][NoStepAfterReturn]_vars
    /\ [](pc # "exited" => <>(pc = "exited"))

C9_Witness ==
    /\ pc = "exited"
    /\ steps = <<"parse_json", "exists", "register">>
    /\ result.err.kind = "TemplateInvalid"

\* C10: TemplateNotFound comes only from the existence check; if the path
\* existed when checked and the file cannot be read at the compile step,
\* the run fails with TemplateInvalid carrying the engine's I/O error.
C10_ReadFailure ==
    /\ result.err.kind = "TemplateNotFound" =>
         (steps = <<"parse_json", "exists">> /\ ~file_exists)
    /\ (Returned /\ file_exists /\ "register" \in Range(steps) /\ ~read.ok)
       => /\ result = [tag |-> "err", data |-> <<>>,
                       err |-> [kind |-> "TemplateInvalid", path |-> args[2],
                                source |-> "TemplateError::IoError"]]
          /\ "render" \notin Range(steps)

\* The file was there when checked and removed before it was read.
C10_Witness ==
    /\ pc = "exited"
    /\ file_exists
    /\ fs.kind = "missing"
    /\ touched[2]
    /\ ~read.ok
    /\ result.err.kind = "TemplateInvalid"
    /\ result.err.source = "TemplateError::IoError"
====
